---- MODULE Spec2Model ----
(***************************************************************************)
(* Model of the breast-cancer classification and RAG question-answering    *)
(* service: the classifier decision (app/predict.py), the document loader, *)
(* vector store persistence and retrieval (app/rag.py), the HTTP endpoints *)
(* (app/main.py) and the chat front-ends (streamlit.py, streamlit2.py).    *)
(*                                                                         *)
(* The components do not share state, so each has its own specification    *)
(* over the same variables: SpecPredict, SpecUpload, SpecAsk, SpecIngest   *)
(* and SpecIndex.  A specification leaves the other components' variables  *)
(* at their initial values.                                                *)
(***************************************************************************)
EXTENDS Integers, Sequences, FiniteSets, TLC

VARIABLES
    \* --- classifier (app/predict.py) ---
    prob,                \* scalar returned by model.predict, in 1/PScale units
    threshold,           \* threshold argument, in 1/PScale units
    class_label,         \* "none" before the call, then "benign" | "malignant"
    confidence_percent,  \* percent, in 1/PScale units (0 .. 100*PScale)
    \* --- POST /predict-image (app/main.py, app/preprocessor.py) ---
    file,                \* the multipart upload of the last request, or NoFile
    response,            \* the HTTP response to the last request, or NoResponse
    forward_passes,      \* number of model.predict calls the server has made
    served,              \* number of requests the server has answered
    \* --- chat front-end session and the /ask-question exchange ---
    frontend,            \* the script the session runs: "streamlit" | "streamlit2"
    messages,            \* st.session_state["messages"]
    request,             \* the HTTP request get_rag_answer sent last, or NoRequest
    status,              \* HTTP status of the last response (0: none received)
    exchange,            \* environment of the last call: network and chain outcome
    uploaded_file,       \* what st.file_uploader holds: the selected file, or NoFile
    theme,               \* st.session_state.theme of streamlit2.py ("none" otherwise)
    pending,             \* the last script run ended with st.rerun()
    user_actions,        \* questions submitted and images uploaded so far
    image_uploads,       \* images uploaded so far
    predict_requests,    \* requests the session has sent to /predict-image
    \* --- document loader and chunker (app/rag.py load_documents) ---
    folder,              \* what folder_path names: kind and entries in rglob order
    chunk_size,          \* load_documents argument
    chunk_overlap,       \* load_documents argument
    loaded,              \* outcome of the last load_documents call, or NotLoaded
    \* --- vector store (app/rag.py, app/main.py) ---
    env_key,             \* whether OPENAI_API_KEY is set in the environment
    disk,                \* what save_path names on local storage
    built,               \* FAISS object create_and_save_vectorstore returned last
    store,               \* FAISS object load_vectorstore returned last
    call,                \* the last vector store operation and its outcome
    stage                \* "start", "indexed" (the indexing run is over), "serving"

vars_predict == <<prob, threshold, class_label, confidence_percent>>
vars_upload == <<file, response, forward_passes, served>>
vars_ask ==
    <<frontend, messages, request, status, exchange, uploaded_file, theme,
      pending, user_actions, image_uploads, predict_requests>>
vars_ingest == <<folder, chunk_size, chunk_overlap, loaded>>
vars_index == <<env_key, disk, built, store, call, stage>>
vars == <<vars_predict, vars_upload, vars_ask, vars_ingest, vars_index>>

\* The variables of the other components, which an action leaves alone.
OtherThanPredict == <<vars_upload, vars_ask, vars_ingest, vars_index>>
OtherThanUpload == <<vars_predict, vars_ask, vars_ingest, vars_index>>
OtherThanAsk == <<vars_predict, vars_upload, vars_ingest, vars_index>>
OtherThanIngest == <<vars_predict, vars_upload, vars_ask, vars_index>>
OtherThanIndex == <<vars_predict, vars_upload, vars_ask, vars_ingest>>

(***************************************************************************)
(* Classifier: app/predict.py                                              *)
(***************************************************************************)

\* Probabilities and confidences are fixed-point numbers: the real value is
\* the integer divided by PScale, so 0.004 is 4000 and 0.003999 is 3999.
PScale == 1000000

\* threshold: float = 0.004
DefaultThreshold == 4000

\* Number of equal steps of the probability grid that model.predict's
\* output is drawn from (besides the values around the default threshold).
ProbGrid == 20

Probabilities ==
    { (k * PScale) \div ProbGrid : k \in 0..ProbGrid }
        \cup {DefaultThreshold - 1, DefaultThreshold, DefaultThreshold + 1}

Thresholds ==
    {0, DefaultThreshold - 1, DefaultThreshold, DefaultThreshold + 1,
     PScale \div 2, PScale}

\* Mutant: strict comparison at the threshold.
predict_image_strict(p, t) ==
    LET label == IF p > t THEN "malignant" ELSE "benign"
    IN  [label |-> label,
         confidence |-> IF label = "malignant" THEN p * 100
                        ELSE (PScale - p) * 100]

\* Mutant: the confidence of a benign result is not flipped to 1 - p.
predict_image_noflip(p, t) ==
    LET label == IF p >= t THEN "malignant" ELSE "benign"
    IN  [label |-> label, confidence |-> p * 100]

\* predict_image(model, image_tensor, threshold): p is preds[0][0].
predict_image(p, t) ==
    LET label == IF p >= t THEN "malignant" ELSE "benign"
    IN  [label |-> label,
         confidence |-> IF label = "malignant" THEN p * 100
                        ELSE (PScale - p) * 100]

PredictIdle ==
    /\ prob = 0
    /\ threshold = DefaultThreshold
    /\ class_label = "none"
    /\ confidence_percent = 0

\* One call of predict_image: the network's forward pass yields p.
PredictImage ==
    \E p \in Probabilities, t \in Thresholds :
        LET r == predict_image(p, t)
        IN  /\ prob' = p
            /\ threshold' = t
            /\ class_label' = r.label
            /\ confidence_percent' = r.confidence
            /\ UNCHANGED OtherThanPredict

(***************************************************************************)
(* POST /predict-image: app/main.py, app/preprocessor.py                   *)
(***************************************************************************)

\* Most requests the server answers in the model.
MaxRequests == 3

\* The formats tf.image.decode_image recognises by the leading bytes.
ImageFormats == {"png", "jpeg", "gif", "bmp"}

\* Uploaded bytes: what the leading bytes announce, whether the rest of
\* the stream is a complete encoding of that format, and the size of the
\* encoded picture.  Empty bytes announce nothing.
Signatures == ImageFormats \cup {"text", "pdf"}
Bodies == {"intact", "truncated"}
ImageDims == {<<224, 224>>, <<500, 300>>}

NoFile == [present |-> FALSE, signature |-> "none", body |-> "none",
           dims |-> <<0, 0>>]
EmptyBytes == [present |-> TRUE, signature |-> "none", body |-> "empty",
               dims |-> <<0, 0>>]
Uploads ==
    {NoFile, EmptyBytes}
        \cup {[present |-> TRUE, signature |-> s, body |-> b, dims |-> d] :
                 s \in Signatures, b \in Bodies, d \in ImageDims}

\* Outputs of the network's forward pass that the endpoint is tried with:
\* both sides of the default threshold and the ties of the rounding.
EndpointProbabilities ==
    {0, DefaultThreshold - 1, DefaultThreshold, 5000, 15000, PScale \div 2,
     PScale}

NoTensor == [shape |-> <<>>, dtype |-> "none"]
NoResponse == [status |-> 0, keys |-> {}, Prediction |-> "none",
               Confidence |-> 0, forward |-> FALSE, raised_by |-> "none",
               exc |-> "none"]

\* Mutant: bytes of no known format are taken as raw pixel data.
decode_image_raw(contents) ==
    IF contents.signature \in ImageFormats /\ contents.body # "intact"
    THEN [ok |-> FALSE, exc |-> "InvalidArgumentError", tensor |-> NoTensor]
    ELSE [ok |-> TRUE, exc |-> "none",
          tensor |-> [shape |-> <<contents.dims[1], contents.dims[2], 3>>,
                      dtype |-> "uint8"]]

\* tf.image.decode_image(contents, channels=3, expand_animations=False):
\* bytes that are not a complete JPEG, PNG, GIF or BMP encoding raise
\* InvalidArgumentError; otherwise the result is a height x width x 3
\* tensor.
decode_image(contents) ==
    IF contents.signature \notin ImageFormats \/ contents.body # "intact"
    THEN [ok |-> FALSE, exc |-> "InvalidArgumentError", tensor |-> NoTensor]
    ELSE [ok |-> TRUE, exc |-> "none",
          tensor |-> [shape |-> <<contents.dims[1], contents.dims[2], 3>>,
                      dtype |-> "uint8"]]

\* tf.image.resize(img, target_size), tf.cast(img, tf.float32) and
\* preprocess_input keep the channels; the size becomes target_size.
resize(img, target_size) ==
    [shape |-> <<target_size[1], target_size[2], img.shape[3]>>,
     dtype |-> "float32"]

\* tf.expand_dims(img, axis=0)
expand_dims(img) == [shape |-> <<1>> \o img.shape, dtype |-> img.dtype]

\* preprocess_images_resnet50_bytes(file, target_size=(224, 224)): no
\* exception of the decoding is caught.
preprocess_images_resnet50_bytes(f) ==
    LET img == decode_image(f)
    IN  IF ~img.ok THEN img
        ELSE [ok |-> TRUE, exc |-> "none",
              tensor |-> expand_dims(resize(img.tensor, <<224, 224>>))]

\* f"{confidence_percent:.0f}": the nearest integer, a tie going to the
\* even one.
format_confidence(c) ==
    LET q == c \div PScale
        r == c % PScale
    IN  IF 2 * r > PScale THEN q + 1
        ELSE IF 2 * r = PScale THEN q + (q % 2)
        ELSE q

\* predict_image_endpoint(file: UploadFile = File(...)); p is what the
\* forward pass returns if the handler gets to it.  A request without the
\* file part fails validation (422) before the handler runs; an exception
\* that leaves the handler is answered by the framework with 500 and a
\* plain-text body, and the server goes on serving.
predict_image_endpoint(f, p) ==
    IF ~f.present
    THEN [NoResponse EXCEPT !.status = 422, !.keys = {"detail"},
                            !.raised_by = "validation",
                            !.exc = "RequestValidationError"]
    ELSE LET image_tensor == preprocess_images_resnet50_bytes(f)
         IN  IF ~image_tensor.ok
             THEN [NoResponse EXCEPT !.status = 500,
                                     !.raised_by = "preprocess",
                                     !.exc = image_tensor.exc]
             ELSE LET r == predict_image(p, DefaultThreshold)
                  IN  [NoResponse EXCEPT
                          !.status = 200,
                          !.keys = {"Prediction", "Confidence"},
                          !.Prediction = r.label,
                          !.Confidence = format_confidence(r.confidence),
                          !.forward = TRUE]

UploadIdle ==
    /\ file = NoFile
    /\ response = NoResponse
    /\ forward_passes = 0
    /\ served = 0

\* One request to POST /predict-image, answered.
PredictImageEndpoint ==
    \E f \in Uploads, p \in EndpointProbabilities :
        LET res == predict_image_endpoint(f, p)
        IN  /\ served < MaxRequests
            /\ file' = f
            /\ response' = res
            /\ forward_passes' = forward_passes + (IF res.forward THEN 1 ELSE 0)
            /\ served' = served + 1
            /\ UNCHANGED OtherThanUpload

(***************************************************************************)
(* /ask-question: app/main.py, and the front-ends' get_rag_answer          *)
(***************************************************************************)

\* Most messages a session's transcript holds in the model.
MaxMessages == 6

Questions == {"q1", "q2"}

\* What question_answer.invoke returns as result['answer'], or the failure
\* of the embedding / chat service inside the chain.
Answers == {"a1", "a2"}
ChainOutcomes == Answers \cup {"ServiceError"}

NoRequest == [method |-> "none", in_query |-> FALSE, in_json |-> FALSE,
              question |-> "none"]
NoExchange == [net |-> FALSE, chain |-> "none"]

\* streamlit2.py:108: the transcript starts with the assistant's greeting.
Greeting == [role |-> "assistant", content |-> "greeting"]

\* @app.post("/ask-question") with the parameter question: str.  A scalar
\* parameter that is not part of the path is a required query parameter:
\* another method is refused by the router (405), a request without the
\* query parameter fails validation (422), an exception raised by the
\* chain is a 500, and otherwise the handler returns {"Answer": ...}.
ask_question_endpoint(req, chain) ==
    IF req.method # "POST" THEN [status |-> 405, key |-> "detail", value |-> "MethodNotAllowed"]
    ELSE IF ~req.in_query THEN [status |-> 422, key |-> "detail", value |-> "FieldRequired"]
    ELSE IF chain = "ServiceError" THEN [status |-> 500, key |-> "none", value |-> "InternalServerError"]
    ELSE [status |-> 200, key |-> "Answer", value |-> chain]

\* streamlit.py:85: requests.post(ASK_URL, json={"question": question})
streamlit_request(q) ==
    [method |-> "POST", in_query |-> FALSE, in_json |-> TRUE, question |-> q]

\* streamlit2.py:82: requests.get(ASK_URL, params={"question": question})
streamlit2_request(q) ==
    [method |-> "GET", in_query |-> TRUE, in_json |-> FALSE, question |-> q]

\* res.json().get("Answer", fallback)
json_get(res, fallback) == IF res.key = "Answer" THEN res.value ELSE fallback

\* streamlit.py get_rag_answer: the reply for a response, or for no
\* response at all (requests raised).
streamlit_reply(net, res) ==
    IF ~net THEN "CouldNotConnect"
    ELSE IF res.status = 200 THEN json_get(res, "NoAnswer")
    ELSE IF res.status = 405 THEN "Error405"
    ELSE IF res.status = 422 THEN "Error422"
    ELSE "Error500"

\* streamlit2.py get_rag_answer: raise_for_status turns every 4xx / 5xx
\* into a RequestException, reported like a connection failure.
streamlit2_reply(net, res) ==
    IF ~net THEN "CouldNotConnect"
    ELSE IF res.status >= 400 THEN "CouldNotConnect"
    ELSE json_get(res, "NoAnswerFound")

get_rag_request(fe, q) ==
    IF fe = "streamlit" THEN streamlit_request(q) ELSE streamlit2_request(q)

get_rag_answer(fe, net, res) ==
    IF fe = "streamlit" THEN streamlit_reply(net, res)
    ELSE streamlit2_reply(net, res)

\* Files the user selects in the uploader (the uploader filters by file
\* name only, so the bytes may be anything), and what the forward pass
\* returns for them.
SessionUploads ==
    {[present |-> TRUE, signature |-> "png", body |-> "intact",
      dims |-> <<500, 300>>],
     [present |-> TRUE, signature |-> "text", body |-> "intact",
      dims |-> <<224, 224>>]}
SessionProbabilities == {DefaultThreshold - 1, DefaultThreshold}

\* streamlit.py get_image_prediction: the reply for a response of
\* /predict-image, or for no response at all.
streamlit_prediction(net, res) ==
    IF ~net THEN "CouldNotConnect"
    ELSE IF res.status = 200
    THEN "Prediction: " \o res.Prediction \o " (Confidence: "
             \o ToString(res.Confidence) \o "%)"
    ELSE "Error" \o ToString(res.status)

\* streamlit2.py get_image_prediction: raise_for_status first.
streamlit2_prediction(net, res) ==
    IF ~net THEN "CouldNotConnect"
    ELSE IF res.status >= 400 THEN "CouldNotConnect"
    ELSE "Prediction: " \o res.Prediction \o " Confidence: "
             \o ToString(res.Confidence) \o "%"

get_image_prediction(fe, net, res) ==
    IF fe = "streamlit" THEN streamlit_prediction(net, res)
    ELSE streamlit2_prediction(net, res)

\* One run of streamlit.py from top to bottom (lines 116-134): prompt is
\* what st.chat_input returns in this run ("none" unless a question was
\* just submitted), f what st.file_uploader returns (the selected file on
\* every run while it stays selected).  answer and reply are what the two
\* helpers return if called.  The script never asks for a rerun.
streamlit_script(msgs, prompt, f, clicked, answer, reply) ==
    LET asked == prompt # "none"
        m1 == IF asked
              THEN msgs \o <<[role |-> "user", content |-> prompt],
                             [role |-> "assistant", content |-> answer]>>
              ELSE msgs
        m2 == IF f.present
              THEN m1 \o <<[role |-> "assistant", content |-> reply]>>
              ELSE m1
    IN  [messages |-> m2, asked |-> asked, predicted |-> f.present,
         toggled |-> FALSE, rerun |-> FALSE]

\* One run of streamlit2.py (lines 115-117 and 132-149): a click on the
\* theme button toggles the theme and calls st.rerun(), which ends the
\* run; a selected file is handled before, and instead of, a prompt; both
\* branches end with st.rerun().
streamlit2_script(msgs, prompt, f, clicked, answer, reply) ==
    IF clicked
    THEN [messages |-> msgs, asked |-> FALSE, predicted |-> FALSE,
          toggled |-> TRUE, rerun |-> TRUE]
    ELSE IF f.present
    THEN [messages |-> msgs \o <<[role |-> "user", image |-> f.signature],
                                 [role |-> "assistant", content |-> reply]>>,
          asked |-> FALSE, predicted |-> TRUE, toggled |-> FALSE,
          rerun |-> TRUE]
    ELSE IF prompt # "none"
    THEN [messages |-> msgs \o <<[role |-> "user", content |-> prompt],
                                 [role |-> "assistant", content |-> answer]>>,
          asked |-> TRUE, predicted |-> FALSE, toggled |-> FALSE,
          rerun |-> TRUE]
    ELSE [messages |-> msgs, asked |-> FALSE, predicted |-> FALSE,
          toggled |-> FALSE, rerun |-> FALSE]

script(fe, msgs, prompt, f, clicked, answer, reply) ==
    IF fe = "streamlit"
    THEN streamlit_script(msgs, prompt, f, clicked, answer, reply)
    ELSE streamlit2_script(msgs, prompt, f, clicked, answer, reply)

AskIdle ==
    /\ frontend = "none"
    /\ messages = <<>>
    /\ request = NoRequest
    /\ status = 0
    /\ exchange = NoExchange
    /\ uploaded_file = NoFile
    /\ theme = "none"
    /\ pending = FALSE
    /\ user_actions = 0
    /\ image_uploads = 0
    /\ predict_requests = 0

\* A new session of one of the two front-end scripts.
AskStart ==
    /\ frontend \in {"streamlit", "streamlit2"}
    /\ messages = IF frontend = "streamlit2" THEN <<Greeting>> ELSE <<>>
    /\ request = NoRequest
    /\ status = 0
    /\ exchange = NoExchange
    /\ uploaded_file = NoFile
    /\ theme = IF frontend = "streamlit2" THEN "light" ELSE "none"
    /\ pending = FALSE
    /\ user_actions = 0
    /\ image_uploads = 0
    /\ predict_requests = 0

\* One script run of the session's front-end in which st.chat_input
\* returns prompt, st.file_uploader returns f and the theme button
\* returns clicked, with every service call the run makes.
RunScript(prompt, f, clicked) ==
    \E net \in BOOLEAN, chain \in ChainOutcomes, pnet \in BOOLEAN,
       p \in SessionProbabilities :
        LET req == get_rag_request(frontend, prompt)
            res == ask_question_endpoint(req, chain)
            answer == get_rag_answer(frontend, net, res)
            pres == predict_image_endpoint(f, p)
            reply == get_image_prediction(frontend, pnet, pres)
            run == script(frontend, messages, prompt, f, clicked, answer,
                          reply)
        IN  /\ Len(run.messages) <= MaxMessages
            /\ (~run.asked) => (net /\ chain = "a1")
            /\ (~run.predicted) => (pnet /\ p = DefaultThreshold)
            /\ messages' = run.messages
            /\ request' = IF run.asked THEN req ELSE NoRequest
            /\ status' = IF run.asked /\ net THEN res.status ELSE 0
            /\ exchange' = IF run.asked THEN [net |-> net, chain |-> chain]
                           ELSE NoExchange
            /\ theme' = IF run.toggled
                        THEN (IF theme = "light" THEN "dark" ELSE "light")
                        ELSE theme
            /\ pending' = run.rerun
            /\ predict_requests' =
                   predict_requests + (IF run.predicted THEN 1 ELSE 0)
            /\ UNCHANGED frontend
            /\ UNCHANGED OtherThanAsk

\* The user submits a question: the script runs with that prompt and with
\* the file that is selected, if any.
SubmitQuestion ==
    \E q \in Questions :
        /\ RunScript(q, uploaded_file, FALSE)
        /\ user_actions' = user_actions + 1
        /\ UNCHANGED <<uploaded_file, image_uploads>>

\* The user puts an image into the uploader: the script runs with it.
UploadImage ==
    \E f \in SessionUploads :
        /\ ~uploaded_file.present
        /\ RunScript("none", f, FALSE)
        /\ uploaded_file' = f
        /\ user_actions' = user_actions + 1
        /\ image_uploads' = image_uploads + 1

\* The user removes the selected image: the script runs without a file.
RemoveImage ==
    /\ uploaded_file.present
    /\ RunScript("none", NoFile, FALSE)
    /\ uploaded_file' = NoFile
    /\ UNCHANGED <<user_actions, image_uploads>>

\* The user clicks the theme button of streamlit2.py.
ToggleTheme ==
    /\ frontend = "streamlit2"
    /\ RunScript("none", uploaded_file, TRUE)
    /\ UNCHANGED <<uploaded_file, user_actions, image_uploads>>

\* The run that st.rerun() asked for: no prompt, no click, and the
\* uploader still holding its file.
Rerun ==
    /\ pending
    /\ RunScript("none", uploaded_file, FALSE)
    /\ UNCHANGED <<uploaded_file, user_actions, image_uploads>>

(***************************************************************************)
(* Chunker: RecursiveCharacterTextSplitter as load_documents builds it     *)
(* (rag.py:68-72): default separators, keep_separator=True, len as the     *)
(* length function, strip_whitespace=True.                                 *)
(*                                                                         *)
(* A text is a sequence of characters.  A split or a chunk is a range      *)
(* [s, e) of the document's text (characters s+1 .. e): with               *)
(* keep_separator=True the splits are joined with "", so every chunk is a  *)
(* contiguous range, and the shared characters of two chunks are counted   *)
(* by position.                                                            *)
(***************************************************************************)

NL == "\n"
SP == " "
IsWhitespace(c) == c \in {SP, NL}

\* ["\n\n", "\n", " ", ""]
DefaultSeparators == << <<NL, NL>>, <<NL>>, <<SP>>, <<>> >>

MinOf(S) == CHOOSE x \in S : \A y \in S : x <= y

\* re.split / re.search: leftmost non-overlapping occurrences of the
\* non-empty separator sep in the range [pos, e) of t.
RECURSIVE Matches(_, _, _, _)
Matches(t, pos, e, sep) ==
    IF pos + Len(sep) > e THEN <<>>
    ELSE IF SubSeq(t, pos + 1, pos + Len(sep)) = sep
         THEN <<pos>> \o Matches(t, pos + Len(sep), e, sep)
         ELSE Matches(t, pos + 1, e, sep)

\* _split_text_with_regex(text, separator, keep_separator=True): every
\* separator starts the split that follows it; "" splits into characters;
\* empty splits are dropped.
split_text_with_regex(t, s, e, sep) ==
    IF sep = <<>> THEN [i \in 1..(e - s) |-> [s |-> s + i - 1, e |-> s + i]]
    ELSE LET b == <<s>> \o Matches(t, s, e, sep) \o <<e>>
             all == [i \in 1..(Len(b) - 1) |-> [s |-> b[i], e |-> b[i + 1]]]
         IN  SelectSeq(all, LAMBDA p : p.e > p.s)

RECURSIVE lstrip(_, _, _)
lstrip(t, s, e) ==
    IF s < e /\ IsWhitespace(t[s + 1]) THEN lstrip(t, s + 1, e) ELSE s

RECURSIVE rstrip(_, _, _)
rstrip(t, s, e) ==
    IF s < e /\ IsWhitespace(t[e]) THEN rstrip(t, s, e - 1) ELSE e

\* _join_docs: "".join(docs).strip(), None when nothing is left.
join_docs(t, cur) ==
    IF cur = <<>> THEN <<>>
    ELSE LET s1 == lstrip(t, cur[1].s, cur[Len(cur)].e)
             e1 == rstrip(t, s1, cur[Len(cur)].e)
         IN  IF s1 = e1 THEN <<>> ELSE <<[s |-> s1, e |-> e1]>>

\* The while loop of _merge_splits: drop splits from the front of
\* current_doc while more than chunk_overlap is kept, or while the next
\* split still does not fit.
RECURSIVE pop_front(_, _, _, _, _)
pop_front(cur, total, dlen, size, overlap) ==
    IF total > overlap \/ (total + dlen > size /\ total > 0)
    THEN pop_front(Tail(cur), total - (cur[1].e - cur[1].s), dlen, size, overlap)
    ELSE [cur |-> cur, total |-> total]

\* Mutant: the overlap is never kept (current_doc is emptied after a chunk).
RECURSIVE merge_loop_nooverlap(_, _, _, _, _, _, _, _)
merge_loop_nooverlap(t, splits, i, cur, total, docs, size, overlap) ==
    IF i > Len(splits) THEN docs \o join_docs(t, cur)
    ELSE LET d == splits[i]
             dlen == d.e - d.s
         IN  IF total + dlen > size
             THEN merge_loop_nooverlap(t, splits, i + 1, <<d>>, dlen,
                                       docs \o join_docs(t, cur), size, overlap)
             ELSE merge_loop_nooverlap(t, splits, i + 1, Append(cur, d),
                                       total + dlen, docs, size, overlap)

\* _merge_splits(splits, separator="") from its i-th split on, with
\* current_doc = cur, its length total, and the chunks docs made so far.
RECURSIVE merge_loop(_, _, _, _, _, _, _, _)
merge_loop(t, splits, i, cur, total, docs, size, overlap) ==
    IF i > Len(splits) THEN docs \o join_docs(t, cur)
    ELSE LET d == splits[i]
             dlen == d.e - d.s
         IN  IF total + dlen > size
             THEN LET kept == IF Len(cur) > 0
                              THEN pop_front(cur, total, dlen, size, overlap)
                              ELSE [cur |-> cur, total |-> total]
                  IN  merge_loop(t, splits, i + 1, Append(kept.cur, d),
                                 kept.total + dlen,
                                 docs \o join_docs(t, cur), size, overlap)
             ELSE merge_loop(t, splits, i + 1, Append(cur, d),
                             total + dlen, docs, size, overlap)

merge_splits(t, splits, size, overlap) ==
    merge_loop(t, splits, 1, <<>>, 0, <<>>, size, overlap)

\* RecursiveCharacterTextSplitter._split_text on the range [s, e) of t:
\* the first separator that is "" or occurs in the range is used; the later
\* separators serve for the splits that are not shorter than chunk_size.
RECURSIVE split_text(_, _, _, _, _, _)
RECURSIVE split_loop(_, _, _, _, _, _, _, _)
split_text(t, s, e, seps, size, overlap) ==
    LET found == {i \in 1..Len(seps) :
                     seps[i] = <<>> \/ Matches(t, s, e, seps[i]) # <<>>}
        i0 == IF found = {} THEN Len(seps) ELSE MinOf(found)
        sep == seps[i0]
        new_seps == IF found = {} \/ sep = <<>> THEN <<>>
                    ELSE SubSeq(seps, i0 + 1, Len(seps))
    IN  split_loop(t, split_text_with_regex(t, s, e, sep), 1, <<>>, <<>>,
                   new_seps, size, overlap)

\* The for loop of _split_text: good holds the pending short splits and
\* final the chunks made so far.
split_loop(t, splits, i, good, final, new_seps, size, overlap) ==
    IF i > Len(splits)
    THEN final \o (IF good # <<>> THEN merge_splits(t, good, size, overlap)
                   ELSE <<>>)
    ELSE LET p == splits[i]
         IN  IF p.e - p.s < size
             THEN split_loop(t, splits, i + 1, Append(good, p), final,
                             new_seps, size, overlap)
             ELSE LET flushed == IF good # <<>>
                                 THEN merge_splits(t, good, size, overlap)
                                 ELSE <<>>
                      sub == IF new_seps = <<>> THEN <<p>>
                             ELSE split_text(t, p.s, p.e, new_seps, size, overlap)
                  IN  split_loop(t, splits, i + 1, <<>>,
                                 final \o flushed \o sub,
                                 new_seps, size, overlap)

\* splitter.split_documents(all_docs): the chunks of each document in
\* turn, each carrying the index of its document.
RECURSIVE split_documents(_, _, _, _)
split_documents(docs, j, size, overlap) ==
    IF j > Len(docs) THEN <<>>
    ELSE LET t == docs[j].text
             cs == split_text(t, 0, Len(t), DefaultSeparators, size, overlap)
         IN  [k \in 1..Len(cs) |-> [doc |-> j, s |-> cs[k].s, e |-> cs[k].e]]
                 \o split_documents(docs, j + 1, size, overlap)

(***************************************************************************)
(* Document loader: app/rag.py load_documents                              *)
(***************************************************************************)

\* Most entries folder.rglob("*") yields in the model.
MaxEntries == 2

\* Longest document text, and largest chunk_size, of the chunker's inputs.
MaxTextLen == 6
MaxChunkSize == 5

Alphabet == {"a", SP, NL}

NoError == [exc |-> "none", msg |-> "none"]
NotLoaded == [called |-> FALSE]

\* file_path.suffix.lower()
lower(suffix) ==
    CASE suffix = ".TXT" -> ".txt"
      [] suffix = ".PDF" -> ".pdf"
      [] OTHER -> suffix

Suffixes == {".pdf", ".txt", ".docx", ".csv", ".TXT", ".md"}
SupportedExtensions == {".pdf", ".txt", ".docx", ".csv"}

\* Texts of the files of the loader's inputs.
TextA == <<"a", "a", SP, "a">>
TextB == <<"a">>

\* What rglob yields: a sub-directory, or a file with its suffix, whether
\* its loader succeeds, and the page_content of the documents it yields
\* (one per page for a PDF, one per row for a CSV).
Entries ==
    {[kind |-> "dir", suffix |-> "", loads |-> FALSE, pages |-> <<>>]}
    \cup [kind : {"file"}, suffix : Suffixes, loads : {TRUE},
          pages : {<<TextA>>, <<TextB, TextA>>}]
    \cup [kind : {"file"}, suffix : Suffixes, loads : {FALSE},
          pages : {<<>>}]

SeqsUpTo(S, n) == UNION {[1..k -> S] : k \in 0..n}

\* The for loop of load_documents from entry i on.  acc records the
\* entries visited, the files a loader was run on, the documents extended
\* into all_docs and the files a warning was printed for.
RECURSIVE load_loop(_, _, _)
load_loop(entries, i, acc) ==
    IF i > Len(entries) THEN acc
    ELSE LET f == entries[i]
             ext == lower(f.suffix)
             seen == [acc EXCEPT !.visited = Append(@, i)]
         IN  IF f.kind # "file" THEN load_loop(entries, i + 1, seen)
             ELSE IF ext \notin SupportedExtensions
                  THEN load_loop(entries, i + 1, seen)
             ELSE IF ~f.loads
                  THEN load_loop(entries, i + 1,
                           [seen EXCEPT !.read = Append(@, i),
                                        !.warnings = Append(@, i)])
             ELSE load_loop(entries, i + 1,
                      [seen EXCEPT
                          !.read = Append(@, i),
                          !.all_docs = @ \o
                              [k \in 1..Len(f.pages) |->
                                  [src |-> i, text |-> f.pages[k]]]])

\* Mutant: no existence check; a missing folder is walked as an empty one.
load_documents_nocheck(dir, size, overlap) ==
    LET acc == load_loop(dir.entries, 1,
                   [visited |-> <<>>, read |-> <<>>, all_docs |-> <<>>,
                    warnings |-> <<>>])
    IN  [called |-> TRUE, err |-> NoError, visited |-> acc.visited,
         read |-> acc.read, all_docs |-> acc.all_docs,
         warnings |-> acc.warnings,
         chunks |-> split_documents(acc.all_docs, 1, size, overlap)]

\* Mutant: the first file whose loader fails aborts the ingestion.
load_documents_abort(dir, size, overlap) ==
    LET acc == load_loop(dir.entries, 1,
                   [visited |-> <<>>, read |-> <<>>, all_docs |-> <<>>,
                    warnings |-> <<>>])
    IN  IF dir.kind # "dir" \/ acc.warnings # <<>>
        THEN [called |-> TRUE,
              err |-> [exc |-> "ValueError", msg |-> "Folder not found"],
              visited |-> <<>>, read |-> <<>>, all_docs |-> <<>>,
              warnings |-> <<>>, chunks |-> <<>>]
        ELSE [called |-> TRUE, err |-> NoError, visited |-> acc.visited,
              read |-> acc.read, all_docs |-> acc.all_docs,
              warnings |-> acc.warnings,
              chunks |-> split_documents(acc.all_docs, 1, size, overlap)]

\* load_documents(folder_path, chunk_size, chunk_overlap)
load_documents(dir, size, overlap) ==
    IF dir.kind # "dir"
    THEN [called |-> TRUE,
          err |-> [exc |-> "ValueError", msg |-> "Folder not found"],
          visited |-> <<>>, read |-> <<>>, all_docs |-> <<>>,
          warnings |-> <<>>, chunks |-> <<>>]
    ELSE LET acc == load_loop(dir.entries, 1,
                        [visited |-> <<>>, read |-> <<>>, all_docs |-> <<>>,
                         warnings |-> <<>>])
         IN  [called |-> TRUE, err |-> NoError, visited |-> acc.visited,
              read |-> acc.read, all_docs |-> acc.all_docs,
              warnings |-> acc.warnings,
              chunks |-> split_documents(acc.all_docs, 1, size, overlap)]

IngestIdle ==
    /\ folder = [kind |-> "absent", entries |-> <<>>]
    /\ chunk_size = 1200
    /\ chunk_overlap = 250
    /\ loaded = NotLoaded

\* A corpus folder of several entries, split with a small chunk size.
IngestStartFolder ==
    /\ folder \in [kind : {"dir"}, entries : SeqsUpTo(Entries, MaxEntries)]
                    \cup {[kind |-> "absent", entries |-> <<>>],
                          [kind |-> "file", entries |-> <<>>]}
    /\ chunk_size = 3
    /\ chunk_overlap = 1
    /\ loaded = NotLoaded

OneTextFile(t) ==
    [kind |-> "dir",
     entries |-> <<[kind |-> "file", suffix |-> ".txt", loads |-> TRUE,
                    pages |-> <<t>>]>>]

\* A corpus of one text document, every text and every
\* chunk_size > chunk_overlap >= 0 within the bounds.
IngestStartText ==
    /\ \E t \in SeqsUpTo(Alphabet, MaxTextLen) : folder = OneTextFile(t)
    /\ chunk_size \in 1..MaxChunkSize
    /\ chunk_overlap \in 0..(chunk_size - 1)
    /\ loaded = NotLoaded

\* The end-to-end scenario at one fiftieth of its size: a 60-character
\* document without separators, chunk_size 24 and chunk_overlap 5 (for
\* 3000, 1200 and 250).
ScenarioLen == 60
ScenarioChunkSize == 24
ScenarioChunkOverlap == 5

IngestStartScenario ==
    /\ folder = OneTextFile([i \in 1..ScenarioLen |-> "a"])
    /\ chunk_size = ScenarioChunkSize
    /\ chunk_overlap = ScenarioChunkOverlap
    /\ loaded = NotLoaded

IngestStart == IngestStartFolder \/ IngestStartText \/ IngestStartScenario

\* One call of load_documents.
LoadDocuments ==
    /\ ~loaded.called
    /\ loaded' = load_documents(folder, chunk_size, chunk_overlap)
    /\ UNCHANGED <<folder, chunk_size, chunk_overlap>>
    /\ UNCHANGED OtherThanIngest

(***************************************************************************)
(* Vector store: app/rag.py create_and_save_vectorstore, load_vectorstore, *)
(* qa_chain, and the FAISS calls they make                                 *)
(***************************************************************************)

\* Most chunks of a corpus, and largest k of a retrieval, in the model.
MaxDocs == 3
MaxK == 3

\* top_k: int = 5
DefaultTopK == 5

\* Texts are numbered; a chunk is a text with the source it came from.
\* Two chunks have the same text, so equally similar entries occur.
Chunks == {[text |-> 1, src |-> 1], [text |-> 1, src |-> 2],
           [text |-> 3, src |-> 1]}
QuestionTexts == {1, 2, 3}

EmbeddingModels == {"text-embedding-3-small", "text-embedding-ada-002"}

\* The embedding service: a text's vector (one coordinate) under a model.
\* The two models embed the same text differently.
Embed(m, text) ==
    IF m = "text-embedding-3-small" THEN 10 * text ELSE 10 * (4 - text)

NoStore == [vectors |-> <<>>, ids |-> <<>>, docs |-> <<>>, emb |-> "none"]

\* A file of the directory is <<>> when missing, else <<its content>>.
AbsentPath == [kind |-> "absent", faiss |-> <<>>, pkl |-> <<>>, other |-> FALSE]
FilePath == [kind |-> "file", faiss |-> <<>>, pkl |-> <<>>, other |-> FALSE]
EmptyDir == [kind |-> "dir", faiss |-> <<>>, pkl |-> <<>>, other |-> FALSE]

IsEmptyDir(d) ==
    d.kind = "dir" /\ d.faiss = <<>> /\ d.pkl = <<>> /\ ~d.other

\* FAISS.from_documents(documents, embeddings): the vectors in document
\* order, a fresh id per document (index_to_docstore_id) and the docstore
\* from id to document; the object keeps the embeddings it was given.
FAISS_from_documents(documents, m) ==
    [vectors |-> [i \in 1..Len(documents) |-> Embed(m, documents[i].text)],
     ids |-> [i \in 1..Len(documents) |-> 100 + i],
     docs |-> [i \in 1..Len(documents) |-> [id |-> 100 + i, doc |-> documents[i]]],
     emb |-> m]

\* Mutant: save_local before the last document is added to the index.
FAISS_save_local_short(vs, d) ==
    [kind |-> "dir",
     faiss |-> <<SubSeq(vs.vectors, 1, Len(vs.vectors) - 1)>>,
     pkl |-> <<[docs |-> vs.docs, ids |-> vs.ids]>>,
     other |-> d.other]

\* vectorstore.save_local(save_path): index.faiss holds the vectors,
\* index.pkl the pickled (docstore, index_to_docstore_id); the embeddings
\* object is not saved.  Other files of the directory stay.
FAISS_save_local(vs, d) ==
    [kind |-> "dir",
     faiss |-> <<vs.vectors>>,
     pkl |-> <<[docs |-> vs.docs, ids |-> vs.ids]>>,
     other |-> d.other]

\* FAISS.load_local(save_path, embeddings, ...): reads index.faiss, then
\* index.pkl; the loaded object embeds queries with the embeddings given
\* to the load.  A missing index.faiss is the index library's
\* RuntimeError, a missing index.pkl is open()'s FileNotFoundError.
FAISS_load_local(d, m) ==
    IF d.faiss = <<>>
    THEN [err |-> [exc |-> "RuntimeError", msg |-> "could not open index.faiss"],
          vs |-> NoStore]
    ELSE IF d.pkl = <<>>
    THEN [err |-> [exc |-> "FileNotFoundError", msg |-> "No such file: index.pkl"],
          vs |-> NoStore]
    ELSE [err |-> NoError,
          vs |-> [vectors |-> d.faiss[1], ids |-> d.pkl[1].ids,
                  docs |-> d.pkl[1].docs, emb |-> m]]

\* Squared L2 distance, the flat index's measure: smaller is more similar.
Distance(qv, v) == (qv - v) * (qv - v)

\* Mutant: an entry as good as the worst kept one goes before it.
insert_hit_before(best, h, k) ==
    LET n == Cardinality({j \in 1..Len(best) : best[j].dist < h.dist})
        placed == SubSeq(best, 1, n) \o <<h>> \o SubSeq(best, n + 1, Len(best))
    IN  SubSeq(placed, 1, IF Len(placed) > k THEN k ELSE Len(placed))

\* The flat index's result handler: the k best entries so far, ordered by
\* (distance, position).  A new entry is kept if fewer than k are held or
\* if it is strictly nearer than the worst one; it is placed after the
\* entries that are as near.
insert_hit(best, h, k) ==
    LET n == Cardinality({j \in 1..Len(best) : best[j].dist <= h.dist})
        placed == SubSeq(best, 1, n) \o <<h>> \o SubSeq(best, n + 1, Len(best))
    IN  SubSeq(placed, 1, IF Len(placed) > k THEN k ELSE Len(placed))

\* index.search(query_vector, k): the scan of the entries in insertion
\* order from entry i on.
RECURSIVE index_search(_, _, _, _, _)
index_search(vectors, qv, k, i, best) ==
    IF i > Len(vectors) THEN best
    ELSE index_search(vectors, qv, k, i + 1,
             insert_hit(best, [pos |-> i, dist |-> Distance(qv, vectors[i])], k))

\* docstore.search(index_to_docstore_id[i])
docstore_search(vs, id) ==
    LET j == CHOOSE j \in 1..Len(vs.docs) : vs.docs[j].id = id
    IN  vs.docs[j].doc

\* The retriever of qa_chain, vectorstore.as_retriever(search_kwargs =
\* {"k": top_k}), on one question: the question is embedded with the
\* store's embeddings, the index searched, and each hit's document looked
\* up in the docstore.
retrieve(vs, q, k) ==
    LET hits == index_search(vs.vectors, Embed(vs.emb, q), k, 1, <<>>)
    IN  [j \in 1..Len(hits) |->
            [pos |-> hits[j].pos, dist |-> hits[j].dist,
             doc |-> docstore_search(vs, vs.ids[hits[j].pos])]]

NoCall == [op |-> "none", docs |-> <<>>, model |-> "none", q |-> 0, k |-> 0,
           target |-> "none", err |-> NoError, effects |-> <<>>,
           before |-> AbsentPath, hits |-> <<>>]

\* Lines 103-118 of create_and_save_vectorstore: the directory is made,
\* the credential read, the index built and saved.
make_build_save(documents, d, m, key, mkdir_ok, svc_ok) ==
    IF d.kind = "file" \/ ~mkdir_ok
    THEN [err |-> [exc |-> "FileNotFoundError", msg |-> "Cannot create save_path"],
          effects |-> <<"mkdir">>, disk |-> d, vs |-> NoStore]
    ELSE LET made == IF d.kind = "absent" THEN EmptyDir ELSE d
         IN  IF ~key
             THEN [err |-> [exc |-> "ValueError", msg |-> "OPENAI_API_KEY not set"],
                   effects |-> <<"mkdir", "getenv">>, disk |-> made,
                   vs |-> NoStore]
             ELSE IF ~svc_ok
             THEN [err |-> [exc |-> "APIError", msg |-> "embedding service"],
                   effects |-> <<"mkdir", "getenv", "embed">>, disk |-> made,
                   vs |-> NoStore]
             ELSE LET vs == FAISS_from_documents(documents, m)
                  IN  [err |-> NoError,
                       effects |-> <<"mkdir", "getenv", "embed", "save">>,
                       disk |-> FAISS_save_local(vs, made), vs |-> vs]

\* Mutant: the directory is made before the documents are checked.
create_and_save_vectorstore_mkdirfirst(documents, d, m, key, mkdir_ok, svc_ok) ==
    IF documents # <<>>
    THEN make_build_save(documents, d, m, key, mkdir_ok, svc_ok)
    ELSE IF d.kind = "file" \/ ~mkdir_ok
    THEN [err |-> [exc |-> "FileNotFoundError", msg |-> "Cannot create save_path"],
          effects |-> <<"mkdir">>, disk |-> d, vs |-> NoStore]
    ELSE [err |-> [exc |-> "ValueError", msg |-> "No documents provided"],
          effects |-> <<"mkdir">>,
          disk |-> IF d.kind = "absent" THEN EmptyDir ELSE d, vs |-> NoStore]

\* create_and_save_vectorstore(documents, save_path, embedding_model) with
\* save_path naming d: the error raised, the side effects in order, the
\* storage afterwards and the object returned.
create_and_save_vectorstore(documents, d, m, key, mkdir_ok, svc_ok) ==
    IF documents = <<>>
    THEN [err |-> [exc |-> "ValueError", msg |-> "No documents provided"],
          effects |-> <<>>, disk |-> d, vs |-> NoStore]
    ELSE make_build_save(documents, d, m, key, mkdir_ok, svc_ok)

\* Mutant: only a missing folder is refused; an empty one goes to the load.
load_vectorstore_noempty(d, m, key) ==
    IF d.kind = "absent"
    THEN [err |-> [exc |-> "FileNotFoundError",
                   msg |-> "Vectorstore folder not found or empty"],
          effects |-> <<>>, vs |-> NoStore]
    ELSE IF ~key
    THEN [err |-> [exc |-> "ValueError", msg |-> "OPENAI_API_KEY not set"],
          effects |-> <<"getenv">>, vs |-> NoStore]
    ELSE LET r == FAISS_load_local(d, m)
         IN  [err |-> r.err, effects |-> <<"getenv", "load_local">>, vs |-> r.vs]

\* load_vectorstore(save_path, embedding_model) with save_path naming d.
\* save_path.iterdir() on a regular file raises NotADirectoryError.
load_vectorstore(d, m, key) ==
    IF d.kind = "absent" \/ IsEmptyDir(d)
    THEN [err |-> [exc |-> "FileNotFoundError",
                   msg |-> "Vectorstore folder not found or empty"],
          effects |-> <<>>, vs |-> NoStore]
    ELSE IF d.kind = "file"
    THEN [err |-> [exc |-> "NotADirectoryError", msg |-> "iterdir"],
          effects |-> <<>>, vs |-> NoStore]
    ELSE IF ~key
    THEN [err |-> [exc |-> "ValueError", msg |-> "OPENAI_API_KEY not set"],
          effects |-> <<"getenv">>, vs |-> NoStore]
    ELSE LET r == FAISS_load_local(d, m)
         IN  [err |-> r.err, effects |-> <<"getenv", "load_local">>, vs |-> r.vs]

\* An index saved earlier, and directories that hold other things.
SavedIndex ==
    FAISS_save_local(
        FAISS_from_documents(<<[text |-> 3, src |-> 1]>>, "text-embedding-3-small"),
        EmptyDir)

InitialDisks ==
    {AbsentPath, FilePath, EmptyDir, SavedIndex,
     [EmptyDir EXCEPT !.other = TRUE],
     [SavedIndex EXCEPT !.pkl = <<>>],
     [SavedIndex EXCEPT !.faiss = <<>>]}

IndexIdle ==
    /\ env_key = FALSE
    /\ disk = AbsentPath
    /\ built = NoStore
    /\ store = NoStore
    /\ call = NoCall
    /\ stage = "start"

IndexStart ==
    /\ env_key \in BOOLEAN
    /\ disk \in InitialDisks
    /\ built = NoStore
    /\ store = NoStore
    /\ call = NoCall
    /\ stage = "start"

\* The indexing run: one call of create_and_save_vectorstore; the
\* directory may be impossible to create and the embedding service may
\* fail.
CreateAndSave ==
    \E documents \in SeqsUpTo(Chunks, MaxDocs), m \in EmbeddingModels,
       mkdir_ok \in BOOLEAN, svc_ok \in BOOLEAN :
        LET r == create_and_save_vectorstore(documents, disk, m, env_key,
                                             mkdir_ok, svc_ok)
        IN  /\ stage = "start"
            /\ stage' = "indexed"
            /\ disk' = r.disk
            /\ built' = IF r.err = NoError THEN r.vs ELSE built
            /\ call' = [NoCall EXCEPT !.op = "create", !.docs = documents,
                                      !.model = m, !.err = r.err,
                                      !.effects = r.effects, !.before = disk]
            /\ UNCHANGED <<env_key, store>>
            /\ UNCHANGED OtherThanIndex

\* The service starts: one call of load_vectorstore (main.py:33).
LoadVectorstore ==
    \E m \in EmbeddingModels :
        LET r == load_vectorstore(disk, m, env_key)
        IN  /\ stage \in {"start", "indexed"}
            /\ stage' = "serving"
            /\ store' = IF r.err = NoError THEN r.vs ELSE store
            /\ call' = [NoCall EXCEPT !.op = "load", !.model = m,
                                      !.err = r.err, !.effects = r.effects,
                                      !.before = disk]
            /\ UNCHANGED <<env_key, disk, built>>
            /\ UNCHANGED OtherThanIndex

\* The retrieval step of one question on a chain made by qa_chain over
\* the loaded store or over the store just built.
Retrieve ==
    \E target \in {"store", "built"}, q \in QuestionTexts,
       k \in (1..MaxK) \cup {DefaultTopK} :
        LET vs == IF target = "store" THEN store ELSE built
        IN  /\ vs # NoStore
            /\ call' = [NoCall EXCEPT !.op = "retrieve", !.target = target,
                                      !.q = q, !.k = k, !.before = disk,
                                      !.effects = <<"embed", "search">>,
                                      !.hits = retrieve(vs, q, k)]
            /\ UNCHANGED <<env_key, disk, built, store, stage>>
            /\ UNCHANGED OtherThanIndex

(***************************************************************************)
(* Specifications                                                          *)
(***************************************************************************)

InitPredict == PredictIdle /\ UploadIdle /\ AskIdle /\ IngestIdle /\ IndexIdle
NextPredict == PredictImage
SpecPredict == InitPredict /\ [][NextPredict]_vars

InitUpload == UploadIdle /\ PredictIdle /\ AskIdle /\ IngestIdle /\ IndexIdle
NextUpload == PredictImageEndpoint
SpecUpload == InitUpload /\ [][NextUpload]_vars

InitAsk == AskStart /\ PredictIdle /\ UploadIdle /\ IngestIdle /\ IndexIdle
NextAsk ==
    SubmitQuestion \/ UploadImage \/ RemoveImage \/ ToggleTheme \/ Rerun
SpecAsk == InitAsk /\ [][NextAsk]_vars

\* The run st.rerun() asks for is started by the framework at once.
SpecAskFair == SpecAsk /\ WF_vars(Rerun)

InitIngest == IngestStart /\ PredictIdle /\ UploadIdle /\ AskIdle /\ IndexIdle
NextIngest == LoadDocuments
SpecIngest == InitIngest /\ [][NextIngest]_vars

InitIndex == IndexStart /\ PredictIdle /\ UploadIdle /\ AskIdle /\ IngestIdle
NextIndex == CreateAndSave \/ LoadVectorstore \/ Retrieve
SpecIndex == InitIndex /\ [][NextIndex]_vars

(***************************************************************************)
(* Claims                                                                  *)
(***************************************************************************)


\* C1: predict_image returns "malignant" if and only if p >= threshold and
\* "benign" otherwise; with the default threshold 0.004, p = 0.004 yields
\* "malignant" and p = 0.003999 yields "benign".
C1_LabelIffAtLeastThreshold ==
    class_label # "none" =>
        /\ class_label \in {"benign", "malignant"}
        /\ (class_label = "malignant") <=> (prob >= threshold)
        /\ (class_label = "benign") <=> (prob < threshold)
        /\ (threshold = 4000 /\ prob = 4000) => class_label = "malignant"
        /\ (threshold = 4000 /\ prob = 3999) => class_label = "benign"

C1_Witness ==
    /\ class_label = "malignant"
    /\ prob = 4000
    /\ threshold = 4000

\* C2: the confidence equals p*100 when the label is "malignant" and
\* (1-p)*100 when it is "benign", and always lies within [0,100].
C2_ConfidenceFormula ==
    class_label # "none" =>
        /\ class_label = "malignant" => confidence_percent = prob * 100
        /\ class_label = "benign" =>
               confidence_percent = (PScale - prob) * 100
        /\ confidence_percent >= 0
        /\ confidence_percent <= 100 * PScale

C2_Witness ==
    /\ class_label = "benign"
    /\ prob = 3999
    /\ threshold = 4000
    /\ confidence_percent = 99600100

\* C3: a question submitted through any chat front-end reaches the service
\* as a request the POST /ask-question endpoint accepts, the response
\* carries the key "Answer", and the assistant message appended is that
\* answer.  Stated for the exchanges in which the network delivers the
\* request and the chain produces an answer.
C3_QuestionAnswered ==
    (exchange.net /\ exchange.chain \in Answers) =>
        /\ request.method = "POST"
        /\ request.in_query
        /\ status = 200
        /\ messages[Len(messages)] =
               [role |-> "assistant", content |-> exchange.chain]

\* The spec's NotFoundError: the exceptions whose cause is a missing
\* folder, file or index (rag.py:39 raises it as ValueError, rag.py:139 as
\* FileNotFoundError).
IsNotFoundError(err) ==
    \/ err.exc = "FileNotFoundError"
    \/ err.msg = "Folder not found"

\* C4: load_documents, given a path that does not exist or is not a
\* directory, fails with NotFoundError before any file is visited or read
\* and without producing any chunk.
C4_MissingFolderFailsFirst ==
    (loaded.called /\ folder.kind # "dir") =>
        /\ IsNotFoundError(loaded.err)
        /\ loaded.err = [exc |-> "ValueError", msg |-> "Folder not found"]
        /\ loaded.visited = <<>>
        /\ loaded.read = <<>>
        /\ loaded.all_docs = <<>>
        /\ loaded.chunks = <<>>

C4_Witness ==
    /\ loaded.called
    /\ folder.kind = "absent"
    /\ loaded.err.msg = "Folder not found"

IsSupported(f) == f.kind = "file" /\ lower(f.suffix) \in SupportedExtensions

\* C5: a failure while reading a single file never aborts load_documents:
\* the loaded documents are exactly those of the files with a supported
\* extension that were read successfully, in traversal order; files with
\* other extensions contribute nothing and raise nothing; every failing
\* file is skipped with a warning.
C5_PerFileFailuresSkipped ==
    (loaded.called /\ folder.kind = "dir") =>
        LET es == folder.entries
            docs == loaded.all_docs
            from(i) == SelectSeq(docs, LAMBDA d : d.src = i)
        IN  /\ loaded.err = NoError
            /\ \A k \in 1..Len(docs) :
                   /\ docs[k].src \in 1..Len(es)
                   /\ IsSupported(es[docs[k].src])
                   /\ es[docs[k].src].loads
            /\ \A k \in 1..(Len(docs) - 1) : docs[k].src <= docs[k + 1].src
            /\ \A i \in 1..Len(es) :
                   /\ (IsSupported(es[i]) /\ es[i].loads) =>
                          [k \in 1..Len(from(i)) |-> from(i)[k].text] = es[i].pages
                   /\ (IsSupported(es[i]) /\ ~es[i].loads) <=>
                          (\E k \in 1..Len(loaded.warnings) : loaded.warnings[k] = i)
                   /\ ~IsSupported(es[i]) =>
                          \A k \in 1..Len(loaded.read) : loaded.read[k] # i

\* A failing file between two files that load: both are ingested.
C5_Witness ==
    /\ loaded.called
    /\ folder.kind = "dir"
    /\ Len(folder.entries) = 2
    /\ IsSupported(folder.entries[1]) /\ ~folder.entries[1].loads
    /\ IsSupported(folder.entries[2]) /\ folder.entries[2].loads
    /\ loaded.warnings = <<1>>
    /\ Len(loaded.all_docs) = 2

\* Characters two chunks share, by position in the document.
Shared(c1, c2) == IF c1.e > c2.s THEN c1.e - c2.s ELSE 0

SameDocPairs ==
    {k \in 1..(Len(loaded.chunks) - 1) :
        loaded.chunks[k].doc = loaded.chunks[k + 1].doc}

\* C9 as stated: every chunk has length <= chunk_size, and each pair of
\* consecutive chunks of the same document shares exactly chunk_overlap
\* characters (pairs ending in the document's final chunk excepted).
C9_ExactOverlap ==
    loaded.called =>
        /\ \A k \in 1..Len(loaded.chunks) :
               loaded.chunks[k].e - loaded.chunks[k].s <= chunk_size
        /\ \A k \in SameDocPairs :
               (k + 1 < Len(loaded.chunks)
                    /\ loaded.chunks[k + 2].doc = loaded.chunks[k].doc) =>
                   Shared(loaded.chunks[k], loaded.chunks[k + 1]) = chunk_overlap

HasNoWhitespace(t) == \A i \in 1..Len(t) : ~IsWhitespace(t[i])

\* Chunks of a text of length n without separators: one if it fits, else
\* one per stride of chunk_size - chunk_overlap.
ChunkCount(n, size, overlap) ==
    IF n = 0 THEN 0
    ELSE IF n <= size THEN 1
    ELSE ((n - overlap) + (size - overlap) - 1) \div (size - overlap)

\* C9 (amended): every chunk has length <= chunk_size; consecutive chunks
\* of the same document share at most chunk_overlap characters; when the
\* document contains no whitespace they share exactly chunk_overlap
\* characters, the final chunk included, and the chunks are the windows
\* of stride chunk_size - chunk_overlap (3 chunks for a document of 3000
\* characters with chunk_size 1200 and chunk_overlap 250).
C9_OverlapAtMost ==
    loaded.called =>
        /\ \A k \in 1..Len(loaded.chunks) :
               /\ loaded.chunks[k].e - loaded.chunks[k].s <= chunk_size
               /\ loaded.chunks[k].e - loaded.chunks[k].s >= 1
        /\ \A k \in SameDocPairs :
               Shared(loaded.chunks[k], loaded.chunks[k + 1]) <= chunk_overlap
        /\ \A j \in 1..Len(loaded.all_docs) :
               HasNoWhitespace(loaded.all_docs[j].text) =>
                   LET cs == SelectSeq(loaded.chunks, LAMBDA c : c.doc = j)
                   IN  /\ Len(cs) = ChunkCount(Len(loaded.all_docs[j].text),
                                               chunk_size, chunk_overlap)
                       /\ \A k \in 1..(Len(cs) - 1) :
                              cs[k].e - cs[k + 1].s = chunk_overlap

\* The scenario: three chunks, both boundaries shared exactly.
C9_Witness ==
    /\ loaded.called
    /\ chunk_size = ScenarioChunkSize
    /\ Len(loaded.chunks) = 3
    /\ Shared(loaded.chunks[1], loaded.chunks[2]) = chunk_overlap
    /\ Shared(loaded.chunks[2], loaded.chunks[3]) = chunk_overlap

\* C6: building the vector index from zero chunks fails with
\* ValidationError before the storage directory is created, before the
\* credential is read and before any call to the embedding service, so
\* persisted state is unchanged.
C6_EmptyBuildFailsFirst ==
    (call.op = "create" /\ call.docs = <<>>) =>
        /\ call.err = [exc |-> "ValueError", msg |-> "No documents provided"]
        /\ call.effects = <<>>
        /\ disk = call.before
        /\ built = NoStore

C6_Witness ==
    /\ call.op = "create"
    /\ call.docs = <<>>
    /\ call.err.msg = "No documents provided"
    /\ call.before.kind = "absent"
    /\ disk.kind = "absent"

IsNonEmptyDir(d) == d.kind = "dir" /\ ~IsEmptyDir(d)

\* C7 as stated: load_vectorstore fails with NotFoundError whenever the
\* storage path is absent or an empty directory, without reading the
\* credential or calling the index library's load; whenever the path is a
\* non-empty directory it does not raise NotFoundError.
C7_NotFoundIffAbsentOrEmpty ==
    call.op = "load" =>
        /\ (call.before.kind = "absent" \/ IsEmptyDir(call.before)) =>
               /\ IsNotFoundError(call.err)
               /\ call.effects = <<>>
        /\ IsNonEmptyDir(call.before) => ~IsNotFoundError(call.err)

\* C7 (amended): load_vectorstore fails with NotFoundError whenever the
\* storage path is absent or an empty directory, without reading the
\* credential or calling the index library's load; whenever the path is a
\* non-empty directory its own check passes and the credential is read,
\* and NotFoundError is then raised only by the index library's load, for
\* a directory that lacks the index's docstore file.
C7_NotFoundBeforeCredential ==
    call.op = "load" =>
        /\ (call.before.kind = "absent" \/ IsEmptyDir(call.before)) =>
               /\ call.err = [exc |-> "FileNotFoundError",
                              msg |-> "Vectorstore folder not found or empty"]
               /\ call.effects = <<>>
               /\ store = NoStore
        /\ IsNonEmptyDir(call.before) =>
               /\ call.effects # <<>>
               /\ call.effects[1] = "getenv"
               /\ IsNotFoundError(call.err) =>
                      /\ call.effects = <<"getenv", "load_local">>
                      /\ call.before.pkl = <<>>

C7_Witness ==
    /\ call.op = "load"
    /\ IsEmptyDir(call.before)
    /\ env_key
    /\ call.err.exc = "FileNotFoundError"
    /\ call.effects = <<>>

DocsOf(hits) == [j \in 1..Len(hits) |-> hits[j].doc]

AllK == (1..MaxK) \cup {DefaultTopK}

\* The index just loaded is the one the indexing run built and saved.
LoadedWhatWasBuilt ==
    /\ call.op = "load"
    /\ call.err = NoError
    /\ built # NoStore

C10_TopKOrdered ==
    call.op = "retrieve" =>
        LET vs == IF call.target = "store" THEN store ELSE built
            n == Len(vs.vectors)
            hits == call.hits
            dist(p) == Distance(Embed(vs.emb, call.q), vs.vectors[p])
            held == {hits[j].pos : j \in 1..Len(hits)}
        IN  /\ Len(hits) <= call.k
            /\ Len(hits) = IF call.k < n THEN call.k ELSE n
            /\ \A j \in 1..Len(hits) :
                   /\ hits[j].pos \in 1..n
                   /\ hits[j].dist = dist(hits[j].pos)
                   /\ hits[j].doc = vs.docs[hits[j].pos].doc
            /\ \A i, j \in 1..Len(hits) :
                   i < j => \/ hits[i].dist < hits[j].dist
                            \/ /\ hits[i].dist = hits[j].dist
                               /\ hits[i].pos < hits[j].pos
            /\ \A p \in (1..n) \ held :
                   \A j \in 1..Len(hits) :
                       \/ dist(p) > hits[j].dist
                       \/ dist(p) = hits[j].dist /\ p > hits[j].pos

\* Fewer entries than k, and two equally similar entries in insertion order.
C10_Witness ==
    /\ call.op = "retrieve"
    /\ call.k = DefaultTopK
    /\ Len(call.hits) = 2
    /\ call.hits[1].dist = call.hits[2].dist
    /\ call.hits[1].pos = 1
    /\ call.hits[1].doc # call.hits[2].doc

\* An entry left out although it is as similar as the one returned.
C10_WitnessCut ==
    /\ call.op = "retrieve"
    /\ call.k = 1
    /\ Len(call.hits) = 1
    /\ Len((IF call.target = "store" THEN store ELSE built).vectors) = 2

\* C11: malformed (non-image) bytes posted to /predict-image are answered
\* with a request-level failure that preprocessing raised: a 500 response
\* carrying no Prediction / Confidence, the forward pass not invoked for
\* that request, and the server still answering (served counts the
\* response; every forward pass belongs to an earlier request).
IsMalformed(f) ==
    f.present /\ (f.signature \notin ImageFormats \/ f.body # "intact")

C11_MalformedUploadFails ==
    (served > 0 /\ IsMalformed(file)) =>
        /\ response.status = 500
        /\ response.raised_by = "preprocess"
        /\ response.exc = "InvalidArgumentError"
        /\ ~response.forward
        /\ response.keys \cap {"Prediction", "Confidence"} = {}
        /\ forward_passes <= served - 1

\* A malformed upload answered after a well-formed one was predicted.
C11_Witness ==
    /\ served = 2
    /\ forward_passes = 1
    /\ file.signature = "text"
    /\ response.status = 500


\* C12: with no embedding-service credential configured, an index build
\* over a non-empty chunk list and an index load on a non-empty directory
\* both fail with ConfigError, without a call to the embedding service or
\* to the index library, and with the storage directory neither created
\* nor written.
IsConfigError(err) ==
    err = [exc |-> "ValueError", msg |-> "OPENAI_API_KEY not set"]

NeedsCredential ==
    \/ call.op = "create" /\ call.docs # <<>>
    \/ call.op = "load" /\ IsNonEmptyDir(call.before)

C12_NoCredentialFailsFast ==
    (~env_key /\ NeedsCredential) =>
        /\ IsConfigError(call.err)
        /\ \A i \in 1..Len(call.effects) :
               call.effects[i] \notin {"embed", "save", "load_local"}
        /\ disk = call.before

\* The load half of C12 alone, which the code keeps.
C12_LoadFailsFast ==
    (~env_key /\ call.op = "load" /\ IsNonEmptyDir(call.before)) =>
        /\ IsConfigError(call.err)
        /\ call.effects = <<"getenv">>
        /\ disk = call.before


\* C13: in every front-end session each user action (one submitted
\* question or one uploaded image) has appended exactly one user message
\* immediately followed by exactly one assistant message, however many
\* script runs have happened since, and an image that stays selected has
\* caused no prediction request beyond the one of its upload.
Transcript ==
    IF frontend = "streamlit2" THEN Tail(messages) ELSE messages

C13_OneExchangePerAction ==
    frontend # "none" =>
        /\ Len(Transcript) = 2 * user_actions
        /\ \A i \in 1..Len(Transcript) :
               Transcript[i].role = IF i % 2 = 1 THEN "user" ELSE "assistant"
        /\ predict_requests <= image_uploads

\* The append-only part of C13: a step never removes or changes a message
\* of the transcript.
C13_AppendOnly ==
    [][/\ Len(messages') >= Len(messages)
       /\ SubSeq(messages', 1, Len(messages)) = messages]_vars

\* The last part of C13: a script that asked for a rerun eventually ends a
\* run without asking for another.
C13_EventuallyQuiet == pending ~> ~pending

\* The rerun loop of streamlit2.py behind C13: while a file stays
\* selected, every run that starts with a rerun pending ends by asking for
\* another one.
C13_RerunLoop ==
    [][(/\ frontend = "streamlit2"
        /\ pending
        /\ uploaded_file.present
        /\ uploaded_file' = uploaded_file) => pending']_vars

====
